---- MODULE Spec2Model ----
(***************************************************************************)
(* Session and refresh-token lifecycle of backend/src/routes/auth.route.ts *)
(* over the users table of backend/src/db/index.ts.                        *)
(*                                                                         *)
(* Handlers run on one event loop: a handler runs without interruption     *)
(* from one await to the next.  signup and login each hold one await (the  *)
(* bcrypt call), so each is two steps; refresh and logout hold none and    *)
(* are one step each.  Time is counted in whole seconds, the resolution    *)
(* of the iat and exp claims of a signed token.                            *)
(*                                                                         *)
(* Specifications: SignupSpec (signup and the two read-only checks, from   *)
(* an empty store), SessionSpec (login, refresh, logout on a store of one  *)
(* user, failed logins included), TokenSpec (the same with valid logins    *)
(* only and a clock that passes the expiry instant), StoreSpec (signup and *)
(* sessions of two users at one clock reading), BackupSpec (the backup     *)
(* service of utils/backup.service.ts and its hourly timer), MigrateSpec   *)
(* (migrateFromFiles of db/migrate.ts, with signups between its runs).     *)
(***************************************************************************)
EXTENDS Integers, Sequences, FiniteSets, Bags, TLC

\* ------------------------------------------------------------- bounds
\* seconds the clock ticks one by one, before the long wait
MaxTime == 1
\* signup requests suspended at their bcrypt await at one time
MaxSignups == 2
\* sessions of one user: tokens in the stored list plus logins in flight
MaxSessions == 2
\* successful rotations counted per token value
MaxConsumed == 2
\* hours after the start in which initialize, stop and manual backups arrive
MaxCallHours == 2
\* runs of migrateFromFiles counted
MaxMigrations == 2

\* ---------------------------------------------------- program constants
\* '3d' and '7d' in seconds
ACCESS_TOKEN_EXPIRY == 259200
REFRESH_TOKEN_EXPIRY == 604800

\* ------------------------------------------------------------- inputs
Usernames == {"alice", "bob"}
Passwords == {"pw1", "pw2"}
\* the password every signup registers
SignupPasswords == {"pw1"}
\* a body field or cookie that is missing (falsy in the handlers' tests)
Missing == ""
\* the role claim of the access token an authenticated request carries
Roles == {"admin", "user"}

VARIABLES
    users,          \* rows of the users table, in insertion order
    now,            \* the clock, in seconds
    pendingSignup,  \* signup requests suspended at await bcrypt.hash
    pendingLogin,   \* login requests suspended at await bcrypt.compare
    resp,           \* the last request answered and its response
    hist,           \* what has happened so far to the refresh token followed
    dashboardConfig,  \* rows of the dashboard_config table
    notes,          \* rows of the notes table
    backupMetadata, \* rows of the backup_metadata table
    intervalId,     \* BackupService.intervalId: the timer it holds, or NoTimer
    timers,         \* the interval timers that are active in the process
    files,          \* which of config.json and users.json exist
    migrations,     \* runs of migrateFromFiles that have returned normally
    last            \* the last service operation and what it did

\* the state outside the auth route: the other tables, the backup service,
\* the migration
serviceVars == <<dashboardConfig, notes, backupMetadata, intervalId, timers, files,
                 migrations, last>>

vars == <<users, now, pendingSignup, pendingLogin, resp, hist, serviceVars>>

\* ------------------------------------------------------------ helpers
Range(s) == {s[i] : i \in DOMAIN s}

Count(s, x) == Cardinality({i \in DOMAIN s : s[i] = x})

\* Array.prototype.filter(t => t !== x)
RECURSIVE FilterOut(_, _)
FilterOut(s, x) ==
    IF s = <<>> THEN <<>>
    ELSE IF Head(s) = x THEN FilterOut(Tail(s), x)
    ELSE <<Head(s)>> \o FilterOut(Tail(s), x)

\* Array.prototype.indexOf: the 0-based index of the first match, or -1
indexOf(s, x) ==
    IF \E i \in DOMAIN s : s[i] = x
    THEN (CHOOSE i \in DOMAIN s : s[i] = x /\ \A j \in 1..(i - 1) : s[j] # x) - 1
    ELSE -1

\* Array.prototype.splice(index, 1): a negative index counts from the end
splice(s, index) ==
    LET start == IF index < 0 THEN (IF Len(s) + index < 0 THEN 0 ELSE Len(s) + index)
                 ELSE index
    IN  IF start >= Len(s) THEN s
        ELSE SubSeq(s, 1, start) \o SubSeq(s, start + 2, Len(s))

\* The refresh_tokens column holds the list as JSON text.
JSONstringify(list) == [json |-> list]
JSONparse(text) == text.json

\* bcrypt: a salted one-way hash, compared by re-hashing
bcryptHash(password) == [bcrypt |-> password]
bcryptCompare(password, hash) == hash = bcryptHash(password)

\* ------------------------------------------------------------- tokens
\* jwt.sign stamps iat = now (seconds) and exp = iat + expiresIn; the token
\* text is a function of the payload and the secret alone.
generateAccessToken(username, role, t) ==
    [username |-> username, role |-> role, iat |-> t, exp |-> t + ACCESS_TOKEN_EXPIRY,
     sig |-> "ok"]

generateRefreshToken(username, t) ==
    [username |-> username, iat |-> t, exp |-> t + REFRESH_TOKEN_EXPIRY, sig |-> "ok"]

\* a verification that reads exp before it checks the signature
jwtVerifyExpiryFirst(token, t) ==
    IF t >= token.exp THEN "TokenExpiredError"
    ELSE IF token.sig # "ok" THEN "JsonWebTokenError"
    ELSE "ok"

\* a verification that still accepts a token at its expiry instant
jwtVerifyAtExpiry(token, t) ==
    IF token.sig # "ok" THEN "JsonWebTokenError"
    ELSE IF t > token.exp THEN "TokenExpiredError"
    ELSE "ok"

\* jwt.verify: signature first, then expiry (expired when now >= exp)
jwtVerify(token, t) ==
    IF token.sig # "ok" THEN "JsonWebTokenError"
    ELSE IF t >= token.exp THEN "TokenExpiredError"
    ELSE "ok"

NoCookie == [sig |-> "absent"]

\* every value the clock takes
ClockValues == (0..MaxTime) \cup {REFRESH_TOKEN_EXPIRY, REFRESH_TOKEN_EXPIRY + 1}

\* every refresh token the server's secret can have signed
RefreshTokens == {generateRefreshToken(u, t) : u \in Usernames, t \in ClockValues}

\* What a request may carry as its refresh_token cookie: nothing, a token with
\* a bad signature, or a token the server's secret signed at some earlier
\* time: for a user of this database, or (at time 0) for a user of a database
\* file that has since been replaced (the secret outlives the file).
Cookies ==
    {NoCookie, [generateRefreshToken("alice", 0) EXCEPT !.sig = "bad"]}
    \cup {token \in RefreshTokens :
             /\ token.iat <= now
             /\ token.iat = 0 \/ \E i \in DOMAIN users : users[i].username = token.username}

\* ------------------------------------------------------------ the store
UserRows(us, username) == {i \in DOMAIN us : us[i].username = username}

\* db.select().from(users).where(eq(users.username, username)).get()
HasUser(us, username) == UserRows(us, username) # {}
\* the select without its where clause: .get() returns the first row
GetUserFirstRow(us, username) == us[1]

GetUser(us, username) == us[CHOOSE i \in UserRows(us, username) : TRUE]

\* the update without its where clause: every row is set
UpdateTokensEveryRow(us, id, text) ==
    [i \in DOMAIN us |-> [us[i] EXCEPT !.refreshTokens = text]]

\* an update that sets the row's other columns from their defaults
UpdateTokensResetRole(us, id, text) ==
    [i \in DOMAIN us |->
        IF us[i].id = id THEN [us[i] EXCEPT !.refreshTokens = text, !.role = "user"]
        ELSE us[i]]

\* db.update(users).set({refreshTokens}).where(eq(users.id, id)).run()
UpdateTokens(us, id, text) ==
    [i \in DOMAIN us |-> IF us[i].id = id THEN [us[i] EXCEPT !.refreshTokens = text]
                         ELSE us[i]]

TokensOf(u) == JSONparse(u.refreshTokens)

\* ---------------------------------------------------------- responses
\* cookie max-ages of res.cookie, in seconds (the code gives milliseconds)
\* an access cookie kept as long as its token
loginAccessMaxAgeOfToken == ACCESS_TOKEN_EXPIRY
loginAccessMaxAge == 86400
loginRefreshMaxAge == 604800
refreshAccessMaxAge == 86400
\* a refresh cookie kept for thirty days
refreshRefreshMaxAgeThirtyDays == 30 * 86400
refreshRefreshMaxAge == 604800

\* a response: status, the body's fields, res.cookie and res.clearCookie calls
Respond(status, message) ==
    [status |-> status, message |-> message, cookies |-> {}, cleared |-> {}]

\* res.clearCookie of access_token and refresh_token with httpOnly: true
HttpOnlyCleared == {[name |-> "access_token", httpOnly |-> TRUE],
                    [name |-> "refresh_token", httpOnly |-> TRUE]}

\* the same, and again without httpOnly
AllCleared == HttpOnlyCleared \cup {[name |-> "access_token", httpOnly |-> FALSE],
                                    [name |-> "refresh_token", httpOnly |-> FALSE]}

\* the refresh token whose history is followed: the one a login or refresh
\* of alice at time 0 signs
watched == generateRefreshToken("alice", 0)

\* its history: handed to a client in a 200 response, rotated away by a 200
\* refresh (counted), removed from a list by logout, removed from a list by
\* the reuse sweep
NoHistory == [handed |-> FALSE, consumed |-> 0, revoked |-> FALSE, swept |-> FALSE]

Handed(h, token) == IF token = watched THEN [h EXCEPT !.handed = TRUE] ELSE h

Consumed(h, token) ==
    IF token = watched /\ h.consumed < MaxConsumed
    THEN [h EXCEPT !.consumed = @ + 1] ELSE h

Revoked(h, token) == IF token = watched THEN [h EXCEPT !.revoked = TRUE] ELSE h

Swept(h, token) == IF token = watched THEN [h EXCEPT !.swept = TRUE] ELSE h

NoResponse == [op |-> "none", res |-> Respond(0, "")]

\* intervalId = null
NoTimer == 0

NoOperation == [op |-> "none"]

\* empty tables, a backup service just constructed, no file to migrate
ServiceInit ==
    /\ dashboardConfig = <<>>
    /\ notes = <<>>
    /\ backupMetadata = <<>>
    /\ intervalId = NoTimer
    /\ timers = {}
    /\ files = [config |-> FALSE, users |-> FALSE]
    /\ migrations = 0
    /\ last = NoOperation

Init ==
    /\ users = <<>>
    /\ now = 0
    /\ pendingSignup = EmptyBag
    /\ pendingLogin = EmptyBag
    /\ resp = NoResponse
    /\ hist = NoHistory
    /\ ServiceInit

\* ------------------------------------------------------------ the clock
Tick ==
    /\ now < MaxTime
    /\ now' = now + 1
    /\ UNCHANGED <<users, pendingSignup, pendingLogin, resp, hist, serviceVars>>

\* time passes until the tokens signed at time 0 expire
LongWait ==
    /\ now <= MaxTime
    /\ now' = REFRESH_TOKEN_EXPIRY
    /\ UNCHANGED <<users, pendingSignup, pendingLogin, resp, hist, serviceVars>>

\* a second more: the tokens signed at time 0 are past their expiry, those
\* signed at time 1 are at it
LongerWait ==
    /\ now <= MaxTime
    /\ now' = REFRESH_TOKEN_EXPIRY + 1
    /\ UNCHANGED <<users, pendingSignup, pendingLogin, resp, hist, serviceVars>>

\* ------------------------------------------------------------- signup
\* an off-by-one in the emptiness test
SignupRoleOffByOne(allUsers) == IF Len(allUsers) <= 1 THEN "admin" ELSE "user"

\* role of a new record, from the rows read just before the insert
SignupRole(allUsers) == IF Len(allUsers) = 0 THEN "admin" ELSE "user"

\* the catch of a handler, here reached by the insert's UNIQUE violation
SignupErrorResponse == Respond(500, "Internal server error")

\* db.insert(users).values({username, passwordHash, role, refreshTokens: '[]'});
\* the id column defaults to a fresh identifier
NewUser(us, username, passwordHash, role) ==
    [id |-> Len(us) + 1, username |-> username, passwordHash |-> passwordHash,
     role |-> role, refreshTokens |-> JSONstringify(<<>>)]

\* POST /signup up to await bcrypt.hash
SignupStart(username, password) ==
    /\ IF username = Missing \/ password = Missing
       THEN /\ resp' = [op |-> "signup", username |-> username,
                        res |-> Respond(400, "Username and password are required")]
            /\ UNCHANGED pendingSignup
       ELSE IF HasUser(users, username)
       THEN /\ resp' = [op |-> "signup", username |-> username,
                        res |-> Respond(409, "Username already exists")]
            /\ UNCHANGED pendingSignup
       ELSE /\ BagCardinality(pendingSignup) < MaxSignups
            /\ pendingSignup' = pendingSignup (+) SetToBag({[username |-> username,
                                                             password |-> password]})
            /\ UNCHANGED resp
    /\ UNCHANGED <<users, now, pendingLogin, hist, serviceVars>>

\* POST /signup from the resumption after bcrypt.hash; the insert throws on
\* the UNIQUE constraint of users.username, which the catch answers with 500
SignupFinish(p) ==
    /\ BagIn(p, pendingSignup)
    /\ pendingSignup' = pendingSignup (-) SetToBag({p})
    /\ LET passwordHash == bcryptHash(p.password)
           allUsers == users
           role == SignupRole(allUsers)
       IN  IF HasUser(users, p.username)
           THEN /\ resp' = [op |-> "signup", username |-> p.username,
                            res |-> SignupErrorResponse]
                /\ UNCHANGED users
           ELSE /\ users' = Append(users, NewUser(users, p.username, passwordHash, role))
                /\ resp' = [op |-> "signup", username |-> p.username,
                            res |-> Respond(201, "User created successfully")]
    /\ UNCHANGED <<now, pendingLogin, hist, serviceVars>>

\* -------------------------------------------------------------- login
\* a wrong-password answer that tells the two failures apart
WrongPasswordResponseTelling == Respond(401, "Incorrect password")

\* the two 401 answers of POST /login
UnknownUserResponse == Respond(401, "Invalid credentials")
WrongPasswordResponse == Respond(401, "Invalid credentials")

\* POST /login up to await bcrypt.compare: the user row is read here
LoginStart(username, password) ==
    /\ IF username = Missing \/ password = Missing
       THEN /\ resp' = [op |-> "login", username |-> username,
                        res |-> Respond(400, "Username and password are required")]
            /\ UNCHANGED pendingLogin
       ELSE IF ~HasUser(users, username)
       THEN /\ resp' = [op |-> "login", username |-> username,
                        res |-> UnknownUserResponse]
            /\ UNCHANGED pendingLogin
       ELSE /\ Len(TokensOf(GetUser(users, username))) + BagCardinality(pendingLogin)
                    < MaxSessions
            /\ pendingLogin' = pendingLogin (+) SetToBag({[username |-> username,
                                                           password |-> password,
                                                           user |-> GetUser(users, username)]})
            /\ UNCHANGED resp
    /\ UNCHANGED <<users, now, pendingSignup, hist, serviceVars>>

\* the list a login writes: the list of the row it read, plus the new token
LoginTokens(user, refreshToken) == Append(TokensOf(user), refreshToken)

\* POST /login from the resumption after bcrypt.compare: the row read before
\* the await is the one the new list is built from
LoginFinish(p) ==
    /\ BagIn(p, pendingLogin)
    /\ pendingLogin' = pendingLogin (-) SetToBag({p})
    /\ LET user == p.user
           passwordMatch == bcryptCompare(p.password, user.passwordHash)
           token == generateAccessToken(p.username, user.role, now)
           refreshToken == generateRefreshToken(p.username, now)
           refreshTokens == LoginTokens(user, refreshToken)
       IN  IF ~passwordMatch
           THEN /\ resp' = [op |-> "login", username |-> p.username,
                            res |-> WrongPasswordResponse]
                /\ UNCHANGED <<users, hist>>
           ELSE /\ users' = UpdateTokens(users, user.id, JSONstringify(refreshTokens))
                /\ resp' = [op |-> "login", username |-> p.username,
                            res |-> [status |-> 200, message |-> "Login successful",
                                     username |-> p.username,
                                     isAdmin |-> (user.role = "admin"),
                                     cookies |-> {[name |-> "access_token", value |-> token,
                                                   maxAge |-> loginAccessMaxAge],
                                                  [name |-> "refresh_token",
                                                   value |-> refreshToken,
                                                   maxAge |-> loginRefreshMaxAge]},
                                     cleared |-> {}]]
                /\ hist' = Handed(hist, refreshToken)
    /\ UNCHANGED <<now, pendingSignup, serviceVars>>

\* ------------------------------------------------------------ refresh
\* the reuse sweep: every row whose list holds the token is rewritten without it
SweepAllUsers(us, refreshToken) ==
    [i \in DOMAIN us |->
        LET tokens == TokensOf(us[i])
            filtered == FilterOut(tokens, refreshToken)
        IN  IF Len(filtered) # Len(tokens)
            THEN [us[i] EXCEPT !.refreshTokens = JSONstringify(filtered)]
            ELSE us[i]]

\* the test written as a truthiness test, if (!tokenIndex): index 0 reads as
\* missing and -1 as found
TokenFoundTruthy(tokenIndex) == tokenIndex # 0

\* the test that sends a verified token down the rotation path
TokenFound(tokenIndex) == tokenIndex # -1

\* the list a rotation writes
RotateTokens(userRefreshTokens, tokenIndex, newRefreshToken) ==
    Append(splice(userRefreshTokens, tokenIndex), newRefreshToken)

\* a no-cookie answer that clears the session cookies all the same
RefreshNoCookieResponseClearing == [Respond(204, "") EXCEPT !.cleared = HttpOnlyCleared]

\* the answer to a refresh without a refresh_token cookie: 204, no body
RefreshNoCookieResponse == Respond(204, "")

\* POST /refresh: no await, one step
Refresh(refreshToken) ==
    /\ refreshToken \in Cookies
    /\ LET verified == jwtVerify(refreshToken, now)
           decoded == refreshToken
           answer(res) == resp' = [op |-> "refresh", cookie |-> refreshToken, res |-> res]
       IN  IF refreshToken = NoCookie
           THEN /\ answer(RefreshNoCookieResponse)
                /\ UNCHANGED <<users, hist>>
           ELSE IF verified = "TokenExpiredError"
           THEN /\ answer([Respond(401, "Refresh token expired")
                             EXCEPT !.cleared = HttpOnlyCleared])
                /\ UNCHANGED <<users, hist>>
           ELSE IF verified # "ok"
           THEN /\ answer(Respond(401, "Invalid refresh token"))
                /\ UNCHANGED <<users, hist>>
           ELSE IF ~HasUser(users, decoded.username)
           THEN /\ answer([Respond(401, "User not found")
                             EXCEPT !.cleared = HttpOnlyCleared])
                /\ UNCHANGED <<users, hist>>
           ELSE LET user == GetUser(users, decoded.username)
                    userRefreshTokens == TokensOf(user)
                    tokenIndex == indexOf(userRefreshTokens, refreshToken)
                    newAccessToken == generateAccessToken(decoded.username, user.role, now)
                    newRefreshToken == generateRefreshToken(decoded.username, now)
                IN  IF ~TokenFound(tokenIndex)
                    THEN /\ users' = SweepAllUsers(users, refreshToken)
                         /\ hist' = IF users' # users THEN Swept(hist, refreshToken)
                                    ELSE hist
                         /\ answer([Respond(401, "Refresh token not found")
                                      EXCEPT !.cleared = HttpOnlyCleared])
                    ELSE /\ users' = UpdateTokens(users, user.id, JSONstringify(
                                        RotateTokens(userRefreshTokens, tokenIndex,
                                                     newRefreshToken)))
                         /\ answer([status |-> 200,
                                    message |-> "Token refreshed successfully",
                                    isAdmin |-> (user.role = "admin"),
                                    cookies |-> {[name |-> "access_token",
                                                  value |-> newAccessToken,
                                                  maxAge |-> refreshAccessMaxAge],
                                                 [name |-> "refresh_token",
                                                  value |-> newRefreshToken,
                                                  maxAge |-> refreshRefreshMaxAge]},
                                    cleared |-> {}])
                         /\ hist' = Handed(Consumed(hist, refreshToken), newRefreshToken)
    /\ UNCHANGED <<now, pendingSignup, pendingLogin, serviceVars>>

\* ------------------------------------------------------------- logout
\* a scan that takes out the first matching entry only (splice at indexOf)
LogoutScanFirstEntry(us, refreshToken) ==
    LET holders == {i \in DOMAIN us : refreshToken \in Range(TokensOf(us[i]))}
    IN  IF holders = {} THEN us
        ELSE LET first == CHOOSE i \in holders : \A j \in holders : i <= j
                 tokens == TokensOf(us[first])
             IN  [us EXCEPT ![first].refreshTokens =
                                JSONstringify(splice(tokens, indexOf(tokens, refreshToken)))]

\* the scan of POST /logout: the first row whose list includes the token is
\* rewritten without it, and the scan stops
LogoutScan(us, refreshToken) ==
    LET holders == {i \in DOMAIN us : refreshToken \in Range(TokensOf(us[i]))}
    IN  IF holders = {} THEN us
        ELSE LET first == CHOOSE i \in holders : \A j \in holders : i <= j
             IN  [us EXCEPT ![first].refreshTokens =
                                JSONstringify(FilterOut(TokensOf(us[first]), refreshToken))]

\* a no-cookie answer that clears the session cookies all the same
LogoutNoCookieResponseClearing ==
    [Respond(200, "No session to logout") EXCEPT !.cleared = AllCleared]

\* the answer to a logout without a refresh_token cookie
LogoutNoCookieResponse == Respond(200, "No session to logout")

\* POST /logout: synchronous, one step
Logout(refreshToken) ==
    /\ refreshToken \in Cookies
    /\ IF refreshToken # NoCookie
       THEN /\ users' = LogoutScan(users, refreshToken)
            /\ hist' = IF users' # users THEN Revoked(hist, refreshToken) ELSE hist
            /\ resp' = [op |-> "logout", cookie |-> refreshToken,
                        res |-> [Respond(200, "Logged out successfully")
                                   EXCEPT !.cleared = AllCleared]]
       ELSE /\ resp' = [op |-> "logout", cookie |-> refreshToken,
                        res |-> LogoutNoCookieResponse]
            /\ UNCHANGED <<users, hist>>
    /\ UNCHANGED <<now, pendingSignup, pendingLogin, serviceVars>>

\* ------------------------------------------- check-users, check-admin
\* a test that needs a second user
HasUsersBeyondFirst(allUsers) == Len(allUsers) > 1

\* allUsers.length > 0
HasUsers(allUsers) == Len(allUsers) > 0

\* GET /check-users
CheckUsers ==
    /\ resp' = [op |-> "check-users",
                res |-> [status |-> 200, hasUsers |-> HasUsers(users),
                         cookies |-> {}, cleared |-> {}]]
    /\ UNCHANGED <<users, now, pendingSignup, pendingLogin, hist, serviceVars>>

\* GET /check-admin, behind authenticateToken: role is req.user?.role, the
\* role claim of the request's access token (Missing when req.user is unset)
CheckAdmin(role) ==
    /\ resp' = [op |-> "check-admin", role |-> role,
                res |-> [status |-> 200, isAdmin |-> (role = "admin"),
                         cookies |-> {}, cleared |-> {}]]
    /\ UNCHANGED <<users, now, pendingSignup, pendingLogin, hist, serviceVars>>

\* ------------------------------------------------------ backup service
\* Every public method of BackupService awaits only promises of async
\* functions whose bodies are synchronous (the database driver is
\* synchronous), so one call runs to its end before another request, timer
\* or call is served: one step each.

\* 1 week, and the period of the setInterval check (1 hour), in milliseconds
backupIntervalMs == 604800000
checkEveryMs == 3600000

\* Date.now() at second t of the model's clock: milliseconds, and positive
\* (the process does not run at the epoch)
DateNow(t) == (t + 1) * 1000

\* a due test that asks for the interval to be exceeded
IsDueStrict(metadata, currentTime) ==
    metadata.lastBackupTime = 0 \/ currentTime > metadata.nextBackupTime

\* !metadata.lastBackupTime || (currentTime >= metadata.nextBackupTime)
IsDue(metadata, currentTime) ==
    metadata.lastBackupTime = 0 \/ currentTime >= metadata.nextBackupTime

\* loadBackupMetadata: the first row, or the defaults when there is none
loadBackupMetadata(rows, currentTime) ==
    IF rows # <<>>
    THEN [lastBackupTime |-> rows[1].lastBackupTime,
          nextBackupTime |-> rows[1].nextBackupTime,
          backupIntervalMs |-> rows[1].backupIntervalMs]
    ELSE [lastBackupTime |-> 0,
          nextBackupTime |-> currentTime + backupIntervalMs,
          backupIntervalMs |-> backupIntervalMs]

shouldPerformBackup(rows, currentTime) ==
    IsDue(loadBackupMetadata(rows, currentTime), currentTime)

\* a save that always inserts
saveBackupMetadataInsert(rows, metadata) ==
    Append(rows, [id |-> Len(rows) + 1] @@ metadata)

\* saveBackupMetadata: update the first row where there is one, else insert
saveBackupMetadata(rows, metadata) ==
    IF rows # <<>>
    THEN LET existing == rows[1]
         IN  [i \in DOMAIN rows |->
                 IF rows[i].id = existing.id THEN [id |-> rows[i].id] @@ metadata
                 ELSE rows[i]]
    ELSE Append(rows, [id |-> Len(rows) + 1] @@ metadata)

\* the write of performBackup to dashboard_config under key 'backup_weekly'
WriteBackup(rows, value) ==
    IF \E i \in DOMAIN rows : rows[i].key = "backup_weekly"
    THEN [i \in DOMAIN rows |->
             IF rows[i].key = "backup_weekly" THEN [rows[i] EXCEPT !.value = value]
             ELSE rows[i]]
    ELSE Append(rows, [key |-> "backup_weekly", value |-> value])

\* performBackup; loadConfig (or a database call) may throw, and then
\* nothing is written
performBackup(ok) ==
    IF ok
    THEN LET currentTime == DateNow(now)
         IN  /\ dashboardConfig' = WriteBackup(dashboardConfig, [createdAt |-> currentTime])
             /\ backupMetadata' = saveBackupMetadata(backupMetadata,
                                      [lastBackupTime |-> currentTime,
                                       nextBackupTime |-> currentTime + backupIntervalMs,
                                       backupIntervalMs |-> backupIntervalMs])
    ELSE UNCHANGED <<dashboardConfig, backupMetadata>>

\* a fresh timer handle
NewTimerId(active) == CHOOSE id \in 1..(Cardinality(active) + 1) :
                          \A t \in active : t.id # id

\* a clearInterval that is skipped
clearIntervalSkipped(active, id) == active

\* clearInterval(this.intervalId)
clearInterval(active, id) == {t \in active : t.id # id}

\* startBackupSchedule: clear the timer held, set a new one
startBackupSchedule ==
    LET left == IF intervalId # NoTimer THEN clearInterval(timers, intervalId) ELSE timers
        id == NewTimerId(left)
    IN  /\ timers' = left \cup {[id |-> id, due |-> now + checkEveryMs \div 1000]}
        /\ intervalId' = id

authVars == <<users, pendingSignup, pendingLogin, resp, hist>>

\* the calls of initialize, stop and triggerManualBackup arrive in this window
InCallWindow == now <= MaxCallHours * 3600

\* initialize(): a failed backup is caught, and the schedule is not started
Initialize(ok) ==
    /\ InCallWindow
    /\ LET shouldBackup == shouldPerformBackup(backupMetadata, DateNow(now))
       IN  /\ IF shouldBackup THEN performBackup(ok)
              ELSE UNCHANGED <<dashboardConfig, backupMetadata>>
           /\ IF shouldBackup /\ ~ok THEN UNCHANGED <<timers, intervalId>>
              ELSE startBackupSchedule
           /\ last' = [op |-> "initialize", at |-> DateNow(now), due |-> shouldBackup,
                       performed |-> shouldBackup /\ ok]
    /\ UNCHANGED <<authVars, now, notes, files, migrations>>

\* stop()
Stop ==
    /\ InCallWindow
    /\ IF intervalId # NoTimer
       THEN timers' = clearInterval(timers, intervalId) /\ intervalId' = NoTimer
       ELSE UNCHANGED <<timers, intervalId>>
    /\ last' = [op |-> "stop", at |-> DateNow(now)]
    /\ UNCHANGED <<authVars, now, dashboardConfig, notes, backupMetadata, files, migrations>>

\* the setInterval callback of timer t, when its period has passed
ScheduledCheck(t, ok) ==
    /\ t \in timers /\ now = t.due
    /\ timers' = (timers \ {t}) \cup {[t EXCEPT !.due = now + checkEveryMs \div 1000]}
    /\ LET shouldBackup == shouldPerformBackup(backupMetadata, DateNow(now))
       IN  /\ IF shouldBackup THEN performBackup(ok)
              ELSE UNCHANGED <<dashboardConfig, backupMetadata>>
           /\ last' = [op |-> "scheduled", at |-> DateNow(now), due |-> shouldBackup,
                       performed |-> shouldBackup /\ ok]
    /\ UNCHANGED <<authVars, now, notes, intervalId, files, migrations>>

\* triggerManualBackup()
TriggerManualBackup(ok) ==
    /\ InCallWindow
    /\ performBackup(ok)
    /\ last' = [op |-> "manual", at |-> DateNow(now), performed |-> ok]
    /\ UNCHANGED <<authVars, now, notes, intervalId, timers, files, migrations>>

\* the end of the runs: one backup interval after the call window
ServiceHorizon == backupIntervalMs \div 1000 + (MaxCallHours + 1) * 3600

\* time passes, d seconds or up to the next timer that is due
Elapse(d) ==
    /\ \A t \in timers : t.due > now
    /\ d = 3600 \/ InCallWindow
    /\ LET dues == {t.due : t \in timers}
           target == IF \E due \in dues : due < now + d
                     THEN CHOOSE due \in dues : \A other \in dues : due <= other
                     ELSE now + d
       IN  target <= ServiceHorizon /\ now' = target
    /\ UNCHANGED <<authVars, serviceVars>>

\* ---------------------------------------------------------- migration
\* config.json: the dashboard configuration, with its notes
ConfigFileData == [notes |-> <<[id |-> "note1"], [id |-> "note2"]>>, title |-> "Lab Dash"]

\* users.json: the users of the file-based store (role may be missing)
UsersFileData ==
    <<[username |-> "alice", passwordHash |-> bcryptHash("pw1"), role |-> "admin",
       refreshTokens |-> <<>>],
      [username |-> "bob", passwordHash |-> bcryptHash("pw1"), role |-> Missing,
       refreshTokens |-> <<>>]>>

\* the inserts of a for loop, one row after the other, up to the first that
\* violates a uniqueness constraint: the rows then, and whether it threw
RECURSIVE InsertNotes(_, _)
InsertNotes(rows, data) ==
    IF data = <<>> THEN [rows |-> rows, threw |-> FALSE]
    ELSE IF \E i \in DOMAIN rows : rows[i].id = Head(data).id
    THEN [rows |-> rows, threw |-> TRUE]
    ELSE InsertNotes(Append(rows, [id |-> Head(data).id]), Tail(data))

RECURSIVE InsertUsers(_, _)
InsertUsers(rows, data) ==
    IF data = <<>> THEN [rows |-> rows, threw |-> FALSE]
    ELSE IF HasUser(rows, Head(data).username)
    THEN [rows |-> rows, threw |-> TRUE]
    ELSE InsertUsers(
             Append(rows, [id |-> Len(rows) + 1,
                           username |-> Head(data).username,
                           passwordHash |-> Head(data).passwordHash,
                           role |-> IF Head(data).role = Missing THEN "user"
                                    ELSE Head(data).role,
                           refreshTokens |-> JSONstringify(Head(data).refreshTokens)]),
             Tail(data))

\* the test on the row with key 'main'
AlreadyInitialized(rows) == \E i \in DOMAIN rows : rows[i].key = "main"

\* migrateFromFiles(): synchronous after initializeDatabase, one step; an
\* insert that throws ends the run with the rows written so far
Migrate ==
    /\ migrations < MaxMigrations
    /\ IF AlreadyInitialized(dashboardConfig)
       THEN /\ last' = [op |-> "migrate", outcome |-> "skipped"]
            /\ migrations' = migrations + 1
            /\ UNCHANGED <<dashboardConfig, notes, users>>
       ELSE LET configRows == IF files.config
                              THEN Append(dashboardConfig,
                                          [key |-> "main",
                                           value |-> [title |-> ConfigFileData.title]])
                              ELSE dashboardConfig
                noteRows == IF files.config THEN InsertNotes(notes, ConfigFileData.notes)
                            ELSE [rows |-> notes, threw |-> FALSE]
                userRows == IF files.users /\ ~noteRows.threw
                            THEN InsertUsers(users, UsersFileData)
                            ELSE [rows |-> users, threw |-> FALSE]
                threw == noteRows.threw \/ userRows.threw
            IN  /\ dashboardConfig' = configRows
                /\ notes' = noteRows.rows
                /\ users' = userRows.rows
                /\ last' = [op |-> "migrate",
                            outcome |-> IF threw THEN "threw" ELSE "migrated"]
                /\ migrations' = IF threw THEN migrations ELSE migrations + 1
    /\ UNCHANGED <<now, pendingSignup, pendingLogin, resp, hist, backupMetadata,
                   intervalId, timers, files>>

\* ----------------------------------------------------- specifications
SignupNext ==
    \/ \E u \in Usernames \cup {Missing}, p \in SignupPasswords \cup {Missing} : SignupStart(u, p)
    \/ \E p \in BagToSet(pendingSignup) : SignupFinish(p)
    \/ CheckUsers
    \/ \E role \in Roles \cup {Missing} : CheckAdmin(role)

SessionNext ==
    \/ Tick
    \/ LongWait
    \/ \E u \in Usernames \cup {Missing}, p \in Passwords \cup {Missing} : LoginStart(u, p)
    \/ \E p \in BagToSet(pendingLogin) : LoginFinish(p)
    \/ \E c \in Cookies : Refresh(c)
    \/ \E c \in Cookies : Logout(c)

\* the session handlers with valid credentials only (a failed login writes
\* nothing), and a clock that also passes the expiry instant
TokenNext ==
    \/ Tick
    \/ LongWait
    \/ LongerWait
    \/ \E u \in Usernames, p \in SignupPasswords :
          HasUser(users, u) /\ bcryptCompare(p, GetUser(users, u).passwordHash)
              /\ LoginStart(u, p)
    \/ \E p \in BagToSet(pendingLogin) : LoginFinish(p)
    \/ \E c \in Cookies : Refresh(c)
    \/ \E c \in Cookies : Logout(c)

\* signup and the session handlers together at one clock reading, with valid
\* credentials only: stores of up to two users and their sessions
StoreNext ==
    \/ \E u \in Usernames, p \in SignupPasswords : SignupStart(u, p)
    \/ \E p \in BagToSet(pendingSignup) : SignupFinish(p)
    \/ \E u \in Usernames, p \in SignupPasswords :
          HasUser(users, u) /\ bcryptCompare(p, GetUser(users, u).passwordHash)
              /\ LoginStart(u, p)
    \/ \E p \in BagToSet(pendingLogin) : LoginFinish(p)
    \/ \E c \in Cookies : Refresh(c)
    \/ \E c \in Cookies : Logout(c)

\* the backup service: its three public calls, its timer, the clock
BackupNext ==
    \/ \E ok \in BOOLEAN : Initialize(ok)
    \/ Stop
    \/ \E t \in timers, ok \in BOOLEAN : ScheduledCheck(t, ok)
    \/ \E ok \in BOOLEAN : TriggerManualBackup(ok)
    \/ \E d \in {1800, 3600} : Elapse(d)

\* runs of the migration, with signups before and between them
MigrateNext ==
    \/ Migrate
    \/ \E u \in Usernames, p \in SignupPasswords : SignupStart(u, p)
    \/ \E p \in BagToSet(pendingSignup) : SignupFinish(p)

Next == SignupNext \/ SessionNext \/ TokenNext \/ StoreNext \/ BackupNext \/ MigrateNext

\* the whole route, from an empty store
Spec == Init /\ [][Next]_vars

\* the signup handler alone, from an empty store
SignupSpec == Init /\ [][SignupNext]_vars

\* the store after signup("alice", "pw1") on an empty store, nothing in flight
SessionInit ==
    /\ users = <<NewUser(<<>>, "alice", bcryptHash("pw1"), SignupRole(<<>>))>>
    /\ now = 0
    /\ pendingSignup = EmptyBag
    /\ pendingLogin = EmptyBag
    /\ resp = NoResponse
    /\ hist = NoHistory
    /\ ServiceInit

\* login, refresh and logout on that store, while time passes
SessionSpec == SessionInit /\ [][SessionNext]_vars

\* signup, login, refresh and logout from an empty store, the clock at rest
StoreSpec == Init /\ [][StoreNext]_vars

\* an empty database, and config.json and users.json each there or not
MigrateInit ==
    /\ users = <<>>
    /\ now = 0
    /\ pendingSignup = EmptyBag
    /\ pendingLogin = EmptyBag
    /\ resp = NoResponse
    /\ hist = NoHistory
    /\ dashboardConfig = <<>>
    /\ notes = <<>>
    /\ backupMetadata = <<>>
    /\ intervalId = NoTimer
    /\ timers = {}
    /\ files \in [config : BOOLEAN, users : BOOLEAN]
    /\ migrations = 0
    /\ last = NoOperation

\* the migration at process start, the signup route between the starts
MigrateSpec == MigrateInit /\ [][MigrateNext]_vars

\* the backup service on an empty database
BackupSpec == Init /\ [][BackupNext]_vars

\* refresh and logout on the sessions of valid logins, across the expiry
TokenSpec == SessionInit /\ [][TokenNext]_vars

\* ------------------------------------------------------------- claims
\* an unexpired watched token, as a refresh request presents it
Unexpired == jwtVerify(watched, now) = "ok"

NotRecognized(res) == res.status = 401 /\ res.message = "Refresh token not found"

InSomeList(token) == \E i \in DOMAIN users : token \in Range(TokensOf(users[i]))

\* C1: once a refresh presenting token R has been answered 200, every later
\* refresh presenting R (unexpired) is answered 401 "not found", never 200.
C1_RotationInvariant ==
    [][(hist.consumed > 0 /\ Unexpired /\ Refresh(watched)) => NotRecognized(resp'.res)]_vars

\* C2: once a logout has removed token R, every later refresh presenting R
\* (unexpired) is answered 401 "not found".
C2_RevokedByLogout ==
    [][(hist.revoked /\ Unexpired /\ Refresh(watched)) => NotRecognized(resp'.res)]_vars

\* C3: a token value that rotation, logout or the sweep has removed from a
\* list is in no stored list in any later state, and is rotated away at most once.
C3_NoResurrection ==
    /\ (hist.consumed > 0 \/ hist.revoked \/ hist.swept) => ~InSomeList(watched)
    /\ hist.consumed <= 1

\* C4: of two refresh requests presenting the same token R with no write by
\* another request between them, not both are answered 200: when the first
\* was answered 200, the second is answered 401.
C4_ConcurrentRefresh ==
    [][(/\ resp.op = "refresh" /\ resp.cookie = watched /\ resp.res.status = 200
        /\ Refresh(watched)) => resp'.res.status = 401]_vars

\* C5: a refresh presenting an unexpired token that a 200 response handed out
\* takes the not-recognized path only if a 200 refresh consumed that token or
\* a logout removed it earlier.
C5_OrphanOnlyAfterConsumption ==
    [][(hist.handed /\ Refresh(watched) /\ NotRecognized(resp'.res))
         => (hist.consumed > 0 \/ hist.revoked)]_vars

\* C6: the write of a login leaves the user's stored list as it was just
\* before the write, with the new token appended at the end.
C6_LoginAppendsOnly ==
    [][\A p \in BagToSet(pendingLogin) :
         (LoginFinish(p) /\ resp'.res.status = 200) =>
            \A i \in DOMAIN users :
                users[i].id = p.user.id =>
                    TokensOf(users'[i]) =
                        Append(TokensOf(users[i]), generateRefreshToken(p.username, now))]_vars

\* what "positively confirmed" means for a presented cookie, in the state the
\* refresh request finds
Confirmed(cookie) ==
    /\ cookie # NoCookie
    /\ jwtVerify(cookie, now) = "ok"
    /\ HasUser(users, cookie.username)
    /\ cookie \in Range(TokensOf(GetUser(users, cookie.username)))

\* a step that sets a cookie or adds a token to a stored list
IssuesTokens ==
    \/ resp'.res.cookies # {}
    \/ \E i \in DOMAIN users : \E token \in Range(TokensOf(users'[i])) :
          Count(TokensOf(users'[i]), token) > Count(TokensOf(users[i]), token)

\* C7: a refresh request (the response records the cookie it presented) sets
\* cookies or adds a token to a stored list only if the presented token
\* verifies, its user exists and the token is in that user's stored list; it
\* answers 200 only then.
C7_RefreshIssuesOnlyOnConfirmation ==
    [][(resp'.op = "refresh" /\ Refresh(resp'.cookie))
         => ((IssuesTokens \/ resp'.res.status = 200) => Confirmed(resp'.cookie))]_vars

\* a 200 refresh of the watched token: cookies set, the token rotated away
C7_Witness ==
    /\ resp.op = "refresh" /\ resp.cookie = watched
    /\ resp.res.status = 200 /\ resp.res.cookies # {}
    /\ hist.consumed > 0

\* C8: the first record created has role admin and every other record has
\* role user, so at most one user is admin, whatever signups were in flight.
C8_FirstUserIsAdmin ==
    \A i \in DOMAIN users : users[i].role = IF i = 1 THEN "admin" ELSE "user"

\* two records created, the second by a signup answered 201
C8_Witness ==
    /\ Len(users) = 2
    /\ resp.op = "signup" /\ resp.res.status = 201
    /\ resp.username = users[2].username

\* C9: a signup with both fields present is answered 201 exactly when it
\* creates a record, and 409 when the username exists already.
C9_SignupOutcomes ==
    [][\A p \in BagToSet(pendingSignup) :
         SignupFinish(p) =>
            IF Len(users') > Len(users) THEN resp'.res.status = 201
            ELSE resp'.res.status = 409]_vars

\* the answer the claim allows a failed login: 401, one message, no cookie
\* set or cleared, no row written
Opaque ==
    /\ resp'.res.status = 401
    /\ resp'.res.message = "Invalid credentials"
    /\ resp'.res.cookies = {} /\ resp'.res.cleared = {}
    /\ users' = users

\* C10: a login with an unknown username and a login with a known username
\* and a wrong password are answered alike: 401, the same message, no
\* cookie, no stored list changed.
C10_CredentialOpacity ==
    [][resp'.op = "login" =>
         /\ \A u \in Usernames, p \in Passwords :
              (~HasUser(users, u) /\ LoginStart(u, p)) => Opaque
         /\ \A q \in BagToSet(pendingLogin) :
              (~bcryptCompare(q.password, q.user.passwordHash) /\ LoginFinish(q)) => Opaque]_vars

\* a login of a registered user answered 401: the wrong-password path
C10_Witness ==
    /\ resp.op = "login" /\ resp.res.status = 401
    /\ HasUser(users, resp.username)

\* the names of the cookies a response clears
ClearedNames(res) == {x.name : x \in res.cleared}

BothCookies == {"access_token", "refresh_token"}

\* C11: a refresh presenting a cookie is answered 401 on each failure kind:
\* cookies untouched and no row written when the token is invalid, both
\* cookies cleared and no row written when it is expired or its user is
\* missing, both cookies cleared when it is not in the user's list.
C11_RefreshFailureTaxonomy ==
    [][(resp'.op = "refresh" /\ resp'.cookie # NoCookie /\ Refresh(resp'.cookie)) =>
         LET c == resp'.cookie
             r == resp'.res
             rejected == r.status = 401 /\ r.cookies = {}
             cleared == ClearedNames(r) = BothCookies
         IN  IF c.sig # "ok"
             THEN rejected /\ r.cleared = {} /\ users' = users
             ELSE IF now >= c.exp
             THEN rejected /\ cleared /\ users' = users
             ELSE IF ~HasUser(users, c.username)
             THEN rejected /\ cleared /\ users' = users
             ELSE c \notin Range(TokensOf(GetUser(users, c.username)))
                      => rejected /\ cleared]_vars

\* an expired token answered 401 with the cookies cleared, and still in a list
C11_Witness ==
    /\ resp.op = "refresh" /\ resp.res.status = 401
    /\ resp.cookie # NoCookie /\ resp.cookie.sig = "ok" /\ now >= resp.cookie.exp
    /\ ClearedNames(resp.res) = BothCookies
    /\ InSomeList(resp.cookie)

\* C12: a refresh with no refresh-token cookie is answered 204, sets and
\* clears no cookie, and changes no user record.
C12_RefreshWithoutCookie ==
    [][(resp'.op = "refresh" /\ resp'.cookie = NoCookie /\ Refresh(NoCookie)) =>
         /\ resp'.res.status = 204
         /\ resp'.res.cookies = {} /\ resp'.res.cleared = {}
         /\ users' = users]_vars

\* a refresh without a cookie answered while a session is stored
C12_Witness ==
    /\ resp.op = "refresh" /\ resp.cookie = NoCookie /\ resp.res.status = 204
    /\ \E i \in DOMAIN users : TokensOf(users[i]) # <<>>

\* C13: a logout presenting a token that a logout has removed (the request
\* just before it, or an earlier one with the token still in no list) is
\* answered with the status of a logout without a cookie and leaves every
\* stored list as it is: logout;logout leaves the store of one logout.
C13_IdempotentLogout ==
    [][(resp'.op = "logout" /\ resp'.cookie # NoCookie /\ Logout(resp'.cookie)) =>
         LET c == resp'.cookie
         IN  (\/ resp.op = "logout" /\ resp.cookie = c
              \/ c = watched /\ hist.revoked /\ ~InSomeList(watched))
                => /\ users' = users
                   /\ resp'.res.status = LogoutNoCookieResponse.status]_vars

\* a logout of the followed token answered after a logout has removed it
C13_Witness ==
    /\ resp.op = "logout" /\ resp.cookie = watched /\ resp.res.status = 200
    /\ hist.handed /\ hist.revoked /\ ~InSomeList(watched)

\* the four res.clearCookie calls: both names, with and without httpOnly
FourCleared == {[name |-> n, httpOnly |-> h] : n \in BothCookies, h \in BOOLEAN}

\* C14: a logout with a refresh-token cookie clears the access and refresh
\* cookies, http-only and not, whether or not a list held the token; a
\* logout without one is answered 200 and clears no cookie.
C14_LogoutCookies ==
    [][(resp'.op = "logout" /\ Logout(resp'.cookie)) =>
         IF resp'.cookie # NoCookie
         THEN resp'.res.status = 200 /\ resp'.res.cleared = FourCleared
         ELSE resp'.res.status = 200 /\ resp'.res.cleared = {}
                 /\ resp'.res.cookies = {}]_vars

\* a logout whose token no list held (no logout ever removed the followed
\* token), answered with the four cookies cleared
C14_Witness ==
    /\ resp.op = "logout" /\ resp.cookie = watched /\ ~hist.revoked
    /\ resp.res.cleared = FourCleared

\* the expired outcome of a refresh
ExpiredOutcome(res) ==
    /\ res.status = 401 /\ res.message = "Refresh token expired"
    /\ ClearedNames(res) = BothCookies

\* C15: a refresh presenting a signed token with expiry instant e is given
\* the expired outcome when the clock reads t >= e, t = e included, and is
\* not given it when t < e.
C15_ExpiryBoundary ==
    [][(/\ resp'.op = "refresh" /\ resp'.cookie # NoCookie /\ resp'.cookie.sig = "ok"
        /\ Refresh(resp'.cookie))
          => (now >= resp'.cookie.exp <=> ExpiredOutcome(resp'.res))]_vars

\* a token presented at exactly its expiry instant, and rejected as expired
C15_Witness ==
    /\ resp.op = "refresh" /\ resp.cookie # NoCookie /\ resp.cookie.sig = "ok"
    /\ now = resp.cookie.exp
    /\ ExpiredOutcome(resp.res)

\* C16: check-users answers hasUsers = true exactly when the store holds a
\* user, check-admin answers isAdmin = true exactly when the request's role
\* claim is admin, and neither writes a record or sets or clears a cookie.
C16_ReadOnlyChecks ==
    [][/\ (resp'.op = "check-users" /\ CheckUsers) =>
            /\ resp'.res.hasUsers = (users # <<>>)
            /\ users' = users
            /\ resp'.res.cookies = {} /\ resp'.res.cleared = {}
       /\ (resp'.op = "check-admin" /\ CheckAdmin(resp'.role)) =>
            /\ resp'.res.isAdmin = (resp'.role = "admin")
            /\ users' = users
            /\ resp'.res.cookies = {} /\ resp'.res.cleared = {}]_vars

\* check-users answered true on a store of one user
C16_Witness ==
    /\ resp.op = "check-users" /\ resp.res.hasUsers
    /\ Len(users) = 1

\* C17: every cookie a login or a successful refresh sets has a max-age of
\* at most the signed lifetime (exp - iat) of the token it carries.
C17_CookieLifetimeBound ==
    \A c \in resp.res.cookies : c.maxAge <= c.value.exp - c.value.iat

\* a successful refresh whose refresh_token cookie lives exactly as long as
\* its token
C17_Witness ==
    /\ resp.op = "refresh" /\ resp.res.status = 200
    /\ \E c \in resp.res.cookies :
          c.name = "refresh_token" /\ c.maxAge = c.value.exp - c.value.iat
    /\ \E c \in resp.res.cookies :
          c.name = "access_token" /\ c.maxAge < c.value.exp - c.value.iat

\* the list old with its entry at position k taken out
Without(old, k) == SubSeq(old, 1, k - 1) \o SubSeq(old, k + 1, Len(old))

\* C18: a successful refresh presenting R rewrites the owner's list as the
\* old list with one entry equal to R taken out and the issued token put at
\* the end: same length, the other entries in their order, R no longer in it.
C18_RotationEffect ==
    [][(resp'.op = "refresh" /\ resp'.res.status = 200 /\ Refresh(resp'.cookie)) =>
         LET R == resp'.cookie
             issued == (CHOOSE c \in resp'.res.cookies : c.name = "refresh_token").value
         IN  \A i \in DOMAIN users :
                IF users[i].username = R.username
                THEN LET old == TokensOf(users[i])
                         new == TokensOf(users'[i])
                     IN  /\ \E k \in DOMAIN old :
                               old[k] = R /\ new = Append(Without(old, k), issued)
                         /\ Len(new) = Len(old)
                         /\ R \notin Range(new)
                ELSE users'[i] = users[i]]_vars

\* C19: no stored list holds the same token value twice.
C19_UniqueTokenValues ==
    \A i \in DOMAIN users :
        \A a, b \in DOMAIN TokensOf(users[i]) :
            a # b => TokensOf(users[i])[a] # TokensOf(users[i])[b]

\* C20: a step of a signup, login, refresh or logout request inserts or
\* rewrites at most one user record and leaves every other record as it was.
C20_SingleRecordWrites ==
    [][/\ Len(users') >= Len(users)
       /\ Cardinality({i \in DOMAIN users : users'[i] # users[i]})
              + (Len(users') - Len(users)) <= 1]_vars

\* the sweep of the not-recognized path has run while another user holds a
\* session
C20_Witness ==
    /\ resp.op = "refresh" /\ NotRecognized(resp.res)
    /\ \E i \in DOMAIN users :
          users[i].username # resp.cookie.username /\ TokensOf(users[i]) # <<>>

\* every token a request can present that the server's secret signed
SignedCookies == {c \in Cookies : c # NoCookie /\ c.sig = "ok"}

\* C21: from an empty store, every token in a user's stored list names that
\* user; so a token that is not in the list of the user it names is in no
\* list, and the sweep of the not-recognized path leaves every row as it is.
C21_TokenOwnership ==
    /\ \A i \in DOMAIN users : \A token \in Range(TokensOf(users[i])) :
          token.username = users[i].username
    /\ \A c \in SignedCookies :
          (/\ HasUser(users, c.username)
           /\ c \notin Range(TokensOf(GetUser(users, c.username))))
             => ~InSomeList(c) /\ SweepAllUsers(users, c) = users

\* alice's token, removed by a logout, has been presented and has taken the
\* not-recognized path while bob holds a session
C21_Witness ==
    /\ resp.op = "refresh" /\ resp.cookie = watched /\ NotRecognized(resp.res)
    /\ hist.revoked /\ ~InSomeList(watched)
    /\ \E i \in DOMAIN users : users[i].username = "bob" /\ TokensOf(users[i]) # <<>>

UniqueUsernames == \A i, j \in DOMAIN users : users[i].username = users[j].username => i = j

\* the isAdmin flag of a 200 login or refresh answer, against the stored role
IsAdminMatchesRole ==
    (resp.op \in {"login", "refresh"} /\ resp.res.status = 200) =>
        LET username == IF resp.op = "login" THEN resp.username ELSE resp.cookie.username
        IN  resp.res.isAdmin = (GetUser(users, username).role = "admin")

\* C22: no step changes the role or the username of a record that exists, no
\* two records share a username, and the isAdmin flag of every 200 login or
\* refresh answer is (stored role = admin) when the answer is given.
C22_RoleStability ==
    [][/\ \A i \in DOMAIN users :
            users'[i].role = users[i].role /\ users'[i].username = users[i].username
       /\ UniqueUsernames'
       /\ IsAdminMatchesRole']_vars

\* the second user, not an admin, has logged in and is told so
C22_Witness ==
    /\ Len(users) = 2
    /\ resp.op = "login" /\ resp.res.status = 200
    /\ resp.username = users[2].username /\ ~resp.res.isAdmin
    /\ users[1].role = "admin" /\ users[2].role = "user"

\* the signed lifetime of the token a cookie carries
Lifetime(c) == c.value.exp - c.value.iat

\* C23: each cookie a login or a successful refresh sets has a max-age equal
\* to the signed lifetime of the token it carries.
C23_MaxAgeEqualsLifetime ==
    \A c \in resp.res.cookies : c.maxAge = Lifetime(c)

\* C23, amended: the refresh_token cookie has a max-age equal to the signed
\* lifetime of its token; the access_token cookie has a max-age of one day,
\* less than the signed lifetime of its token.
C23_MaxAgeAmended ==
    \A c \in resp.res.cookies :
        IF c.name = "refresh_token" THEN c.maxAge = Lifetime(c)
        ELSE c.maxAge = 24 * 60 * 60 /\ c.maxAge < Lifetime(c)

\* a login answered 200 with its two cookies
C23_Witness ==
    /\ resp.op = "login" /\ resp.res.status = 200
    /\ {c.name : c \in resp.res.cookies} = BothCookies

\* no previous backup time is recorded
NoBackupRecorded == backupMetadata = <<>> \/ backupMetadata[1].lastBackupTime = 0

\* the due rule, on the recorded times
BackupDue == NoBackupRecorded \/ DateNow(now) >= backupMetadata[1].nextBackupTime

\* C24: a scheduled check and the check in initialize run performBackup
\* exactly when no previous backup time is recorded or the current time is
\* at or past the recorded next-backup time; a successful backup at time t
\* records lastBackupTime = t and nextBackupTime = t + backupIntervalMs; no
\* scheduled check performs a backup before the last backup's time plus the
\* interval.
C24_BackupDueRule ==
    [][/\ (\/ \E t \in timers, ok \in BOOLEAN : ScheduledCheck(t, ok)
           \/ \E ok \in BOOLEAN : Initialize(ok))
            => /\ last'.due <=> BackupDue
               /\ ~BackupDue => backupMetadata' = backupMetadata
                                  /\ dashboardConfig' = dashboardConfig
       /\ (last'.op \in {"scheduled", "initialize", "manual"} /\ last'.performed)
            => /\ Len(backupMetadata') >= 1
               /\ backupMetadata'[1].lastBackupTime = last'.at
               /\ backupMetadata'[1].nextBackupTime = last'.at + backupIntervalMs
       /\ (\E t \in timers : ScheduledCheck(t, TRUE)) /\ last'.performed
            => \/ NoBackupRecorded
               \/ DateNow(now) >= backupMetadata[1].lastBackupTime + backupIntervalMs]_vars

\* a scheduled check has performed a backup one interval after an earlier one
C24_Witness ==
    /\ last.op = "scheduled" /\ last.performed
    /\ last.at > backupIntervalMs
    /\ backupMetadata[1].lastBackupTime = last.at

\* C25: at most one interval timer is active, and none when the service
\* holds none (after stop); backup_metadata holds at most one row and
\* dashboard_config at most one row with key 'backup_weekly'.
C25_SingleScheduleSingleRows ==
    /\ Cardinality(timers) <= 1
    /\ intervalId = NoTimer => timers = {}
    /\ last.op = "stop" => timers = {}
    /\ Len(backupMetadata) <= 1
    /\ Cardinality({i \in DOMAIN dashboardConfig :
                       dashboardConfig[i].key = "backup_weekly"}) <= 1

\* the service stopped after it was started and after two backups were made
C25_Witness ==
    /\ last.op = "stop" /\ timers = {}
    /\ Len(backupMetadata) = 1
    /\ backupMetadata[1].lastBackupTime > DateNow(0)
    /\ \E i \in DOMAIN dashboardConfig : dashboardConfig[i].key = "backup_weekly"

\* C26: once a run of migrateFromFiles has returned, every later run finds
\* the database initialized, skips, and inserts no config, note or user row,
\* whichever of the two files exist.
C26_MigrationRunsOnce ==
    [][(migrations >= 1 /\ Migrate) =>
         /\ last'.outcome = "skipped"
         /\ dashboardConfig' = dashboardConfig
         /\ notes' = notes
         /\ users' = users]_vars
====
